---- MODULE Spec2Model ----
(***************************************************************************)
(* A model of pre_commit_matlab/matlab_reflow_comments.py: the comment     *)
(* reflow engine (process_file, _write_line, _dump_buffer), the greedy     *)
(* wrapper it calls (textwrap.fill with break_on_hyphens=False and every   *)
(* other option at its default) and the command-line entry point (main).   *)
(*                                                                         *)
(* A string is a sequence of one-character strings; a file's content is    *)
(* one such string, with NL after each of its lines.                       *)
(***************************************************************************)
EXTENDS Integers, Sequences, FiniteSets, TLC

(***************************************************************************)
(* Characters and the str methods the program uses                         *)
(***************************************************************************)
NL == "\n"

TAB == "\t"

CR == "\r"

FF == "\f"

\* U+000B, line tabulation.
VT == ""

\* U+001C .. U+001F, the information separators.
FS == ""

GS == ""

RS == ""

US == ""

\* U+0085, next line.
NEL == ""

\* U+00A0, no-break space.
NBSP == " "

\* The characters str.strip / str.lstrip / str.rstrip remove: those for which
\* str.isspace() is true, up to U+00FF (a string of the model holds no
\* character above it).
Whitespace == {" ", TAB, NL, VT, FF, CR, FS, GS, RS, US, NEL, NBSP}

\* textwrap._whitespace.
TextwrapWhitespace == {" ", TAB, NL, VT, FF, CR}

\* The line boundaries of str.splitlines(), up to U+00FF; CR followed by NL is
\* one boundary.
LineBoundaries == {NL, CR, VT, FF, FS, GS, RS, NEL}

\* The characters for which str.isupper() is true, among those of the model.
UpperCase == {"B"}

IsUpper(c) == c \in UpperCase

\* s[a:b] of Python, 0-based, for 0 <= a.
Slice(s, a, b) ==
    IF b <= a \/ a >= Len(s) THEN <<>>
    ELSE SubSeq(s, a + 1, IF b > Len(s) THEN Len(s) ELSE b)

\* str.lstrip()
RECURSIVE LStrip(_)
LStrip(s) ==
    IF s = <<>> THEN <<>>
    ELSE IF Head(s) \in Whitespace THEN LStrip(Tail(s)) ELSE s

\* str.rstrip()
RECURSIVE RStrip(_)
RStrip(s) ==
    IF s = <<>> THEN <<>>
    ELSE IF s[Len(s)] \in Whitespace THEN RStrip(SubSeq(s, 1, Len(s) - 1)) ELSE s

\* str.strip() == ''
IsBlank(s) == LStrip(s) = <<>>

\* str.startswith("%")
StartsWithPercent(s) == s # <<>> /\ Head(s) = "%"

\* str.replace("%", "", 1): the first "%" of s is removed, if there is one.
RECURSIVE RemoveFirstPercent(_)
RemoveFirstPercent(s) ==
    IF s = <<>> THEN <<>>
    ELSE IF Head(s) = "%" THEN Tail(s)
    ELSE <<Head(s)>> \o RemoveFirstPercent(Tail(s))

\* ' ' * n
RECURSIVE Spaces(_)
Spaces(n) == IF n <= 0 THEN <<>> ELSE <<" ">> \o Spaces(n - 1)

\* "".join(seq)
RECURSIVE Join(_)
Join(seq) == IF seq = <<>> THEN <<>> ELSE Head(seq) \o Join(Tail(seq))

\* "\n".join(lines)
RECURSIVE JoinNL(_)
JoinNL(lines) ==
    IF lines = <<>> THEN <<>>
    ELSE IF Len(lines) = 1 THEN Head(lines)
    ELSE Head(lines) \o <<NL>> \o JoinNL(Tail(lines))

\* str.splitlines(): the text is cut after every line boundary, CR NL being
\* one boundary; a last line without boundary counts, an empty rest after the
\* last boundary does not. (read_text() has turned CR NL and CR into NL
\* before, which gives the same lines.)
RECURSIVE SplitLinesFrom(_, _)
SplitLinesFrom(text, cur) ==
    IF text = <<>> THEN (IF cur = <<>> THEN <<>> ELSE <<cur>>)
    ELSE IF Head(text) = CR /\ Len(text) > 1 /\ text[2] = NL
    THEN <<cur>> \o SplitLinesFrom(Tail(Tail(text)), <<>>)
    ELSE IF Head(text) \in LineBoundaries
    THEN <<cur>> \o SplitLinesFrom(Tail(text), <<>>)
    ELSE SplitLinesFrom(Tail(text), Append(cur, Head(text)))

SplitLines(text) == SplitLinesFrom(text, <<>>)

\* _n_leading_spaces
_n_leading_spaces(line) == Len(line) - Len(LStrip(line))

(***************************************************************************)
(* textwrap.fill as _dump_buffer calls it: width=line_length, the two      *)
(* indents, break_on_hyphens=False; expand_tabs, replace_whitespace,       *)
(* break_long_words, drop_whitespace stay True, tabsize 8, max_lines None. *)
(***************************************************************************)
TabSize == 8

\* str.expandtabs(tabsize): a TAB becomes the spaces up to the next tab stop;
\* the column starts again after NL and CR.
RECURSIVE ExpandTabsFrom(_, _)
ExpandTabsFrom(text, col) ==
    IF text = <<>> THEN <<>>
    ELSE IF Head(text) = TAB
    THEN Spaces(TabSize - (col % TabSize))
             \o ExpandTabsFrom(Tail(text), col + TabSize - (col % TabSize))
    ELSE IF Head(text) \in {NL, CR}
    THEN <<Head(text)>> \o ExpandTabsFrom(Tail(text), 0)
    ELSE <<Head(text)>> \o ExpandTabsFrom(Tail(text), col + 1)

ExpandTabs(text) == ExpandTabsFrom(text, 0)

\* str.translate(unicode_whitespace_trans): every character of
\* textwrap._whitespace becomes a space.
ReplaceWhitespace(text) ==
    [k \in 1..Len(text) |-> IF text[k] \in TextwrapWhitespace THEN " " ELSE text[k]]

\* TextWrapper._munge_whitespace: tabs are expanded, then whitespace replaced.
MungeWhitespace(text) == ReplaceWhitespace(ExpandTabs(text))

\* TextWrapper._split with wordsep_simple_re: maximal runs of whitespace and
\* maximal runs of other characters, in order; no chunk is empty.
RECURSIVE SplitFrom(_, _)
SplitFrom(text, cur) ==
    IF text = <<>> THEN (IF cur = <<>> THEN <<>> ELSE <<cur>>)
    ELSE IF cur = <<>> THEN SplitFrom(Tail(text), <<Head(text)>>)
    ELSE IF (Head(text) = " ") = (cur[1] = " ")
         THEN SplitFrom(Tail(text), Append(cur, Head(text)))
         ELSE <<cur>> \o SplitFrom(Tail(text), <<Head(text)>>)

\* TextWrapper._split_chunks
SplitChunks(text) == SplitFrom(MungeWhitespace(text), <<>>)

\* _wrap_chunks: the indent of the line being started.
LineIndent(lines, initial_indent, subsequent_indent) ==
    IF lines # <<>> THEN subsequent_indent ELSE initial_indent

\* _wrap_chunks: a whitespace chunk that would start a line is dropped, unless
\* no line has been made yet.
DropLeadingBlank(chunks, lines) ==
    IF IsBlank(Head(chunks)) /\ lines # <<>> THEN Tail(chunks) ELSE chunks

\* The inner loop of _wrap_chunks: chunks move to the current line while they fit.
RECURSIVE TakeFitting(_, _, _, _)
TakeFitting(chunks, cur_line, cur_len, width) ==
    IF chunks # <<>> /\ cur_len + Len(Head(chunks)) <= width
    THEN TakeFitting(Tail(chunks), Append(cur_line, Head(chunks)),
                     cur_len + Len(Head(chunks)), width)
    ELSE [chunks |-> chunks, cur_line |-> cur_line, cur_len |-> cur_len]

\* _handle_long_word: the room left on the line; 1 when the indent alone
\* fills the width.
SpaceLeft(cur_len, width) == IF width < 1 THEN 1 ELSE width - cur_len

\* A variant of HandleLongWord that does not cut (break_long_words=False): a
\* long chunk goes whole on a line of its own.
HandleLongWordKeepsWhole(chunks, cur_line, cur_len, width) ==
    IF cur_line = <<>>
    THEN [chunks |-> Tail(chunks), cur_line |-> <<Head(chunks)>>]
    ELSE [chunks |-> chunks, cur_line |-> cur_line]

\* TextWrapper._handle_long_word with break_long_words=True and
\* break_on_hyphens=False: the chunk is cut after space_left characters.
HandleLongWord(chunks, cur_line, cur_len, width) ==
    [chunks |-> <<Slice(Head(chunks), SpaceLeft(cur_len, width), Len(Head(chunks)))>>
                    \o Tail(chunks),
     cur_line |-> Append(cur_line, Slice(Head(chunks), 0, SpaceLeft(cur_len, width)))]

\* _wrap_chunks: when the next chunk is longer than a whole line it is cut;
\* t is what the inner loop left.
LongWordStep(t, width) ==
    IF t.chunks # <<>> /\ Len(Head(t.chunks)) > width
    THEN HandleLongWord(t.chunks, t.cur_line, t.cur_len, width)
    ELSE [chunks |-> t.chunks, cur_line |-> t.cur_line]

\* _wrap_chunks: a whitespace chunk that ends the line is dropped.
DropTrailingBlank(cur_line) ==
    IF cur_line # <<>> /\ IsBlank(cur_line[Len(cur_line)])
    THEN SubSeq(cur_line, 1, Len(cur_line) - 1)
    ELSE cur_line

\* _wrap_chunks: a line that holds a chunk is added to the lines, after its indent.
AddLine(lines, indent, cur_line) ==
    IF cur_line # <<>> THEN Append(lines, indent \o Join(cur_line)) ELSE lines

\* _wrap_chunks: the chunks and lines after a pass; h is what the long-word
\* step left.
EndPass(h, lines, indent) ==
    [chunks |-> h.chunks, lines |-> AddLine(lines, indent, DropTrailingBlank(h.cur_line))]

\* One pass of the outer loop of _wrap_chunks for a line that starts with
\* `indent`, for non-empty chunks.
WrapPass(chunks, lines, line_length, indent) ==
    EndPass(LongWordStep(TakeFitting(DropLeadingBlank(chunks, lines), <<>>, 0,
                                     line_length - Len(indent)),
                         line_length - Len(indent)),
            lines, indent)

\* One pass of the outer loop of _wrap_chunks.
WrapOneLine(chunks, lines, line_length, initial_indent, subsequent_indent) ==
    WrapPass(chunks, lines, line_length,
             LineIndent(lines, initial_indent, subsequent_indent))

\* The outer loop of _wrap_chunks; n is what a pass over chunks and lines
\* gave. A pass that changes neither is repeated for ever by the code: the
\* call never returns.
RECURSIVE WrapLoop(_, _, _, _, _)
RECURSIVE WrapAgain(_, _, _, _, _, _)
WrapAgain(n, chunks, lines, line_length, initial_indent, subsequent_indent) ==
    IF n.chunks = chunks /\ n.lines = lines
    THEN [status |-> "hang", lines |-> lines]
    ELSE WrapLoop(n.chunks, n.lines, line_length, initial_indent, subsequent_indent)

WrapLoop(chunks, lines, line_length, initial_indent, subsequent_indent) ==
    IF chunks = <<>> THEN [status |-> "ok", lines |-> lines]
    ELSE WrapAgain(WrapOneLine(chunks, lines, line_length, initial_indent,
                               subsequent_indent),
                   chunks, lines, line_length, initial_indent, subsequent_indent)

\* A variant of Wrap without the check of the width.
WrapUnchecked(text, line_length, initial_indent, subsequent_indent) ==
    WrapLoop(SplitChunks(text), <<>>, line_length, initial_indent, subsequent_indent)

\* TextWrapper.wrap: _wrap_chunks raises ValueError for a width <= 0.
Wrap(text, line_length, initial_indent, subsequent_indent) ==
    IF line_length <= 0 THEN [status |-> "ValueError", lines |-> <<>>]
    ELSE WrapLoop(SplitChunks(text), <<>>, line_length, initial_indent,
                  subsequent_indent)

(***************************************************************************)
(* The reflow engine                                                       *)
(***************************************************************************)

\* What a step that writes nothing and leaves the buffer alone gives.
Nothing(buffer) ==
    [status |-> "ok", written |-> <<>>, buffer |-> buffer, lines |-> <<>>]

\* A variant of Dumped without buffer.clear().
DumpedKeepsBuffer(r, buffer) ==
    IF r.status = "ok"
    THEN [status |-> "ok", written |-> JoinNL(r.lines) \o <<NL>>,
          buffer |-> buffer, lines |-> r.lines]
    ELSE [status |-> r.status, written |-> <<>>, buffer |-> buffer, lines |-> <<>>]

\* _dump_buffer, given what fill did (r): the wrapped lines and a newline are
\* written and the buffer is cleared. When fill raised or never returned
\* nothing is written and the buffer is as it was. `lines` are the wrapped
\* lines, for the record.
Dumped(r, buffer) ==
    IF r.status = "ok"
    THEN [status |-> "ok", written |-> JoinNL(r.lines) \o <<NL>>,
          buffer |-> <<>>, lines |-> r.lines]
    ELSE [status |-> r.status, written |-> <<>>, buffer |-> buffer, lines |-> <<>>]

\* _dump_buffer
_dump_buffer(buffer, line_length, indent_level) ==
    Dumped(Wrap(Join(buffer), line_length,
                Spaces(indent_level) \o <<"%">>,
                Spaces(indent_level) \o <<"%", " ">>),
           buffer)

\* Variants of WriteAfter: the line is written without its leading
\* whitespace; the line is written before the dumped text.
WriteStripped(d, line) ==
    IF d.status = "ok" THEN [d EXCEPT !.written = d.written \o LStrip(line) \o <<NL>>]
    ELSE d

WriteBefore(d, line) ==
    IF d.status = "ok" THEN [d EXCEPT !.written = line \o <<NL>> \o d.written] ELSE d

\* _write_line after its dump (d): the line is written as it is.
WriteAfter(d, line) ==
    IF d.status = "ok" THEN [d EXCEPT !.written = d.written \o line \o <<NL>>] ELSE d

\* _write_line: a pending buffer is dumped first.
_write_line(line, buffer, line_length, indent_level) ==
    WriteAfter(IF buffer # <<>> THEN _dump_buffer(buffer, line_length, indent_level)
               ELSE Nothing(buffer),
               line)

\* The loop's variables after a pass that wrote the line straight out (w is
\* what _write_line did), with the branch taken and whether it dumped.
PassedThrough(w, buffer, level, branch) ==
    [status |-> w.status, written |-> w.written, buffer |-> w.buffer,
     indent_level |-> level, branch |-> branch, dumped |-> buffer # <<>>,
     lines |-> w.lines]

\* A variant of Buffered that adds the line without its leading whitespace.
BufferedStripped(d, uncommented_line, level, dumped) ==
    [status |-> d.status, written |-> d.written,
     buffer |-> IF d.status = "ok" THEN Append(d.buffer, LStrip(uncommented_line))
                ELSE d.buffer,
     indent_level |-> level, branch |-> "buffered", dumped |-> dumped,
     lines |-> d.lines]

\* The loop's variables after a pass that put the line in the buffer (d is
\* the dump made before, if one was made).
Buffered(d, uncommented_line, level, dumped) ==
    [status |-> d.status, written |-> d.written,
     buffer |-> IF d.status = "ok" THEN Append(d.buffer, uncommented_line)
                ELSE d.buffer,
     indent_level |-> level, branch |-> "buffered", dumped |-> dumped,
     lines |-> d.lines]

\* uncommented_line.lstrip()[0] of an empty string.
CapitalIndexError(buffer, level) ==
    [status |-> "IndexError", written |-> <<>>, buffer |-> buffer,
     indent_level |-> level, branch |-> "buffered", dumped |-> FALSE,
     lines |-> <<>>]

\* indent_level after the check for a new buffer.
NewLevel(line, buffer, indent_level) ==
    IF buffer = <<>> THEN _n_leading_spaces(line) ELSE indent_level

\* A variant of Uncommented without rstrip().
UncommentedUntrimmed(line) == RemoveFirstPercent(LStrip(line))

\* uncommented_line
Uncommented(line) == RStrip(RemoveFirstPercent(LStrip(line)))

\* A variant of StartsCapital that does not look at the option.
StartsCapitalAlways(uncommented_line, alternate_capital_handling) ==
    IsUpper(LStrip(uncommented_line)[1])

\* The capital-letter check.
StartsCapital(uncommented_line, alternate_capital_handling) ==
    alternate_capital_handling /\ IsUpper(LStrip(uncommented_line)[1])

\* A line eligible for reflowing: the buffer is dumped first when the line
\* starts with a capital letter, then the line is added to the buffer.
Reflow(uncommented_line, buffer, level, line_length, alternate_capital_handling) ==
    IF alternate_capital_handling /\ LStrip(uncommented_line) = <<>>
    THEN CapitalIndexError(buffer, level)
    ELSE Buffered(IF StartsCapital(uncommented_line, alternate_capital_handling)
                     /\ buffer # <<>>
                  THEN _dump_buffer(buffer, line_length, level)
                  ELSE Nothing(buffer),
                  uncommented_line, level,
                  StartsCapital(uncommented_line, alternate_capital_handling)
                      /\ buffer # <<>>)

\* A comment line: blank, inner indented, or eligible for reflowing.
CommentLine(line, uncommented_line, buffer, level, line_length, ignore_indented, alternate_capital_handling) ==
    IF _n_leading_spaces(uncommented_line) = 0
    THEN PassedThrough(_write_line(line, buffer, line_length, level),
                       buffer, level, "blank")
    ELSE IF ignore_indented /\ _n_leading_spaces(uncommented_line) >= 2
    THEN PassedThrough(_write_line(line, buffer, line_length, level),
                       buffer, level, "indented")
    ELSE Reflow(uncommented_line, buffer, level, line_length,
                alternate_capital_handling)

\* The body of the loop of process_file for one source line. The result holds
\* the loop's variables after the pass (buffer, indent_level), the text
\* written by it and its outcome, and for the record the branch taken, whether
\* the buffer was dumped and the wrapped lines of that dump.
ProcessLineBody(line, buffer, indent_level, line_length, ignore_indented, alternate_capital_handling) ==
    IF StartsWithPercent(LStrip(line))
    THEN CommentLine(line, Uncommented(line), buffer,
                     NewLevel(line, buffer, indent_level), line_length,
                     ignore_indented, alternate_capital_handling)
    ELSE PassedThrough(_write_line(line, buffer, line_length, indent_level),
                       buffer, indent_level, "noncomment")

\* The else clause of the loop: what is left in the buffer is dumped.
EndOfFile(buffer, line_length, indent_level) ==
    IF buffer # <<>> THEN _dump_buffer(buffer, line_length, indent_level)
    ELSE Nothing(buffer)

\* What process_file leaves: its outcome and the content of the file. The
\* text written reaches the file when f is closed, at the end of the with
\* block or by an error; a dump that never returns leaves the file empty.
Left(status, out) ==
    [status |-> status, content |-> IF status = "hang" THEN <<>> ELSE out]

\* The loop of process_file from source line k on, with `out` written so
\* far; r is what the pass for src[k] gave, e what the else clause gave.
RECURSIVE ProcessLines(_, _, _, _, _, _, _, _)
RECURSIVE AfterLine(_, _, _, _, _, _, _)
AfterLine(r, src, k, out, line_length, ignore_indented, alternate_capital_handling) ==
    IF r.status # "ok" THEN Left(r.status, out \o r.written)
    ELSE ProcessLines(src, k + 1, r.buffer, r.indent_level, out \o r.written,
                      line_length, ignore_indented, alternate_capital_handling)

AfterLoop(e, out) == Left(e.status, out \o e.written)

ProcessLines(src, k, buffer, indent_level, out, line_length, ignore_indented, alternate_capital_handling) ==
    IF k > Len(src)
    THEN AfterLoop(EndOfFile(buffer, line_length, indent_level), out)
    ELSE AfterLine(ProcessLineBody(src[k], buffer, indent_level, line_length,
                                   ignore_indented, alternate_capital_handling),
                   src, k, out, line_length, ignore_indented,
                   alternate_capital_handling)

\* process_file on a file that exists and holds `text`: the outcome and the
\* content the file is left with.
process_file(text, line_length, ignore_indented, alternate_capital_handling) ==
    ProcessLines(SplitLines(text), 1, <<>>, 0, <<>>, line_length,
                 ignore_indented, alternate_capital_handling)

(***************************************************************************)
(* The command line                                                        *)
(***************************************************************************)

\* An option that is not on the command line, and one given with a value.
Absent == [given |-> FALSE, value |-> <<>>]

Given(v) == [given |-> TRUE, value |-> v]

DigitValue == [c \in {"0", "1", "2", "3", "4", "5", "6", "7", "8", "9"} |->
                 CASE c = "0" -> 0 [] c = "1" -> 1 [] c = "2" -> 2 [] c = "3" -> 3
                   [] c = "4" -> 4 [] c = "5" -> 5 [] c = "6" -> 6 [] c = "7" -> 7
                   [] c = "8" -> 8 [] c = "9" -> 9]

\* int(s) for a string of digits.
RECURSIVE DigitsValue(_, _)
DigitsValue(s, acc) ==
    IF s = <<>> THEN acc ELSE DigitsValue(Tail(s), 10 * acc + DigitValue[Head(s)])

\* type=int: int(s) for an optional "-" and digits.
ParseInt(s) == IF Head(s) = "-" THEN 0 - DigitsValue(Tail(s), 0) ELSE DigitsValue(s, 0)

\* A variant of ParseBool that reads the word "false" as false.
ParseBoolWord(s) == s \notin {<<>>, <<"f", "a", "l", "s", "e">>}

\* type=bool: bool(s) of a string is whether it is non-empty.
ParseBool(s) == s # <<>>

\* default=78 of --line-length
DefaultLineLength == 78

\* default=True of --ignore-indented
DefaultIgnoreIndented == TRUE

\* default=False of --alternate-capital-handling
DefaultAlternateCapitalHandling == FALSE

\* parser.parse_args(argv): a default is used as it is, a given value is
\* converted by the option's type.
parse_args(a) ==
    [filenames |-> a.filenames,
     line_length |-> IF a.line_length.given THEN ParseInt(a.line_length.value)
                     ELSE DefaultLineLength,
     ignore_indented |-> IF a.ignore_indented.given
                         THEN ParseBool(a.ignore_indented.value)
                         ELSE DefaultIgnoreIndented,
     alternate_capital_handling |->
         IF a.alternate_capital_handling.given
         THEN ParseBool(a.alternate_capital_handling.value)
         ELSE DefaultAlternateCapitalHandling]

(***************************************************************************)
(* The inputs                                                              *)
(***************************************************************************)
\* The longest file of Spec, in lines.
MaxLines == 2

\* The most files on the command line of SpecMain.
MaxFiles == 3

\* The longest buffer of SpecDump, in fragments, its deepest indent and its
\* greatest width.
MaxFragments == 3

MaxIndent == 2

MaxWidth == 8

FileNames == {"f", "g", "h"}

\* A file that does not exist, and one that holds `text`.
Missing == [exists |-> FALSE, content |-> <<>>]

File(text) == [exists |-> TRUE, content |-> text]

\* The text of a file whose lines are `lines`, each ended by NL.
RECURSIVE JoinLines(_)
JoinLines(lines) ==
    IF lines = <<>> THEN <<>> ELSE Head(lines) \o <<NL>> \o JoinLines(Tail(lines))

\* The words of comments: a lower-case one, a capitalized one, a longer one.
Words == {<<"a">>, <<"B">>, <<"a", "a">>}

\* The source lines of Spec. Without leading whitespace: code (or nothing),
\* or a "%" with 0 to 2 spaces and at most one word after it.
Inners == 0..2

LineBodies ==
    {<<>>, <<"a">>}
        \cup {<<"%">> \o Spaces(n) \o t : n \in Inners, t \in {<<>>} \cup Words}

\* With two leading spaces: nothing, code, a blank comment, comments
\* eligible for reflowing and an inner indented one.
IndentedLines ==
    {<<" ", " ">> \o b :
        b \in {<<>>, <<"a">>, <<"%">>, <<"%", " ", "a">>, <<"%", " ", "B">>,
                <<"%", " ", " ", "a">>}}

\* Lines with other whitespace: code and a comment indented by a TAB, a
\* comment with a TAB or a NBSP as its inner indentation, and code before a
\* CR (its line ends with CR NL).
OtherLines ==
    {<<TAB, "a">>, <<TAB, "%", " ", "a">>, <<"%", TAB, "a">>, <<"%", NBSP, "a">>,
     <<"a", CR>>}

SourceLines == LineBodies \cup IndentedLines \cup OtherLines

\* The files of SpecMain: code alone, a comment of two lines that reflow
\* into one, and code followed by a comment.
MainTexts ==
    {JoinLines(<<<<"a">>>>),
     JoinLines(<<<<"%", " ", "a">>, <<"%", " ", "a">>>>),
     JoinLines(<<<<"a">>, <<"%", " ", "a">>>>)}

\* The fragments of SpecDump: 1 or 2 spaces and a word, or a TAB or a NBSP
\* and a word.
Fragments ==
    {Spaces(n) \o w : n \in 1..2, w \in Words} \cup {<<TAB, "a">>, <<NBSP, "a">>}

TextsOf(lines, n) ==
    {JoinLines(s) : s \in UNION {[1..k -> lines] : k \in 0..n}}

\* The widths of Spec: one that an indent of 2 leaves no room in, the least
\* one that holds a one-letter word after "% ", and one that holds two.
SpecLineLengths == {<<"2">>, <<"3">>, <<"5">>}

\* The width of SpecMain is missing (78), zero or negative.
MainLineLengths == {Absent, Given(<<"0">>), Given(<<"-", "1">>)}

(***************************************************************************)
(* The state                                                               *)
(***************************************************************************)
VARIABLES
    argv,          \* the command line: filenames and the three options
    args,          \* args of main, once parsed
    fs,            \* the file system: name -> [exists, content]
    pending,       \* process_file: the text written to f that is still in
                   \* f's buffer, not in the file
    mpc,           \* main: "parse", "files" (in its loop) or "exit"
    fidx,          \* main: index of `file` in args.filenames
    pc,            \* process_file: "idle", "open", "lines", "done", or
                   \* "raised" (an error left it and main) or "hang";
                   \* "dump" before and "dumped" after a call of
                   \* _dump_buffer alone
    err,           \* the error raised, or "none"
    src,           \* process_file: the lines read
    i,             \* process_file: index in src of the next line of the loop
    buffer,        \* process_file: the fragments waiting to be reflowed
    indent_level,  \* process_file
    fs0,           \* history: the file system main started with
    tags,          \* history: for each line written to the open file,
                   \* "verbatim" (_write_line's own) or "wrapped"
    bufSrc,        \* history: the source lines whose fragments are in buffer
    lastDump       \* history: the dump made by the last step, if it made one

vars == <<argv, args, fs, pending, mpc, fidx, pc, err, src, i, buffer,
          indent_level, fs0, tags, bufSrc, lastDump>>

NoArgs == [filenames |-> <<>>, line_length |-> DefaultLineLength,
           ignore_indented |-> DefaultIgnoreIndented,
           alternate_capital_handling |-> DefaultAlternateCapitalHandling]

NoDump == [made |-> FALSE, src |-> <<>>, buffer |-> <<>>, indent_level |-> 0,
           lines |-> <<>>]

\* main is called; nothing is parsed or opened yet.
Start ==
    /\ args = NoArgs
    /\ pending = <<>>
    /\ mpc = "parse"
    /\ fidx = 0
    /\ pc = "idle"
    /\ err = "none"
    /\ src = <<>>
    /\ i = 0
    /\ buffer = <<>>
    /\ indent_level = 0
    /\ fs0 = fs
    /\ tags = <<>>
    /\ bufSrc = <<>>
    /\ lastDump = NoDump

\* One file of up to MaxLines source lines (or no file), every width of
\* SpecLineLengths, both values of both flags.
Init ==
    /\ argv \in [filenames : {<<"f">>},
                 line_length : {Given(w) : w \in SpecLineLengths},
                 ignore_indented : {Absent, Given(<<>>)},
                 alternate_capital_handling : {Absent, Given(<<"1">>)}]
    /\ fs \in {[n \in FileNames |-> IF n = "f" THEN c ELSE Missing] :
                  c \in {Missing} \cup {File(t) : t \in TextsOf(SourceLines, MaxLines)}}
    /\ Start

\* Up to MaxFiles names, each file missing or one of MainTexts; options
\* absent, empty, "false" or, for the width, not positive.
InitMain ==
    /\ argv \in [filenames : UNION {[1..k -> FileNames] : k \in 0..MaxFiles},
                 line_length : MainLineLengths,
                 ignore_indented : {Absent, Given(<<>>), Given(<<"f", "a", "l", "s", "e">>)},
                 alternate_capital_handling :
                     {Absent, Given(<<>>), Given(<<"f", "a", "l", "s", "e">>)}]
    /\ fs \in [FileNames -> {Missing} \cup {File(t) : t \in MainTexts}]
    /\ Start

\* _dump_buffer is about to be called with a buffer of up to MaxFragments
\* fragments, an indent level up to MaxIndent and a width of 1..MaxWidth, on
\* an open, empty file.
InitDump ==
    /\ argv = [filenames |-> <<"f">>, line_length |-> Absent,
               ignore_indented |-> Absent, alternate_capital_handling |-> Absent]
    /\ args \in [filenames : {<<"f">>}, line_length : 1..MaxWidth,
                 ignore_indented : {FALSE}, alternate_capital_handling : {FALSE}]
    /\ fs = [n \in FileNames |-> IF n = "f" THEN File(<<>>) ELSE Missing]
    /\ pending = <<>>
    /\ mpc = "files"
    /\ fidx = 1
    /\ pc = "dump"
    /\ err = "none"
    /\ src = <<>>
    /\ i = 1
    /\ buffer \in UNION {[1..k -> Fragments] : k \in 1..MaxFragments}
    /\ indent_level \in 0..MaxIndent
    /\ fs0 = fs
    /\ tags = <<>>
    /\ bufSrc = <<>>
    /\ lastDump = NoDump

(***************************************************************************)
(* The steps                                                               *)
(***************************************************************************)
\* The file process_file is working on.
file == args.filenames[fidx]

\* main: args = parser.parse_args(argv); the loop starts at the first name.
ParseArgs ==
    /\ mpc = "parse"
    /\ args' = parse_args(argv)
    /\ fidx' = 1
    /\ mpc' = IF argv.filenames = <<>> THEN "exit" ELSE "files"
    /\ UNCHANGED <<argv, fs, pending, pc, err, src, i, buffer, indent_level, fs0, tags,
                   bufSrc, lastDump>>

\* A variant of ReadText in which the file is opened for writing before it
\* is read: it is created or emptied, and nothing is read from it.
ReadTextOpensFirst ==
    /\ mpc = "files"
    /\ pc = "idle"
    /\ fs' = [fs EXCEPT ![file] = File(<<>>)]
    /\ src' = <<>>
    /\ pc' = "open"
    /\ UNCHANGED <<argv, args, pending, mpc, fidx, err, i, buffer, indent_level,
                   fs0, tags, bufSrc, lastDump>>

\* process_file is called for args.filenames[fidx] and reads it:
\* src = file.read_text().splitlines(). A missing file raises.
ReadText ==
    /\ mpc = "files"
    /\ pc = "idle"
    /\ IF fs[file].exists
       THEN /\ src' = SplitLines(fs[file].content)
            /\ pc' = "open"
            /\ err' = err
       ELSE /\ src' = src
            /\ pc' = "raised"
            /\ err' = "FileNotFoundError"
    /\ UNCHANGED <<argv, args, fs, pending, mpc, fidx, i, buffer, indent_level,
                   fs0, tags, bufSrc, lastDump>>

\* A variant of OpenWrite that keeps the content of the file (mode "a").
OpenAppend ==
    /\ pc = "open"
    /\ buffer' = <<>>
    /\ indent_level' = 0
    /\ i' = 1
    /\ pc' = "lines"
    /\ tags' = <<>>
    /\ bufSrc' = <<>>
    /\ lastDump' = NoDump
    /\ pending' = <<>>
    /\ UNCHANGED <<argv, args, fs, mpc, fidx, err, src, fs0>>

\* with file.open("w") as f: the file is emptied and f's buffer is empty;
\* buffer and indent_level are initialised and the loop starts at the first
\* line.
OpenWrite ==
    /\ pc = "open"
    /\ fs' = [fs EXCEPT ![file] = File(<<>>)]
    /\ pending' = <<>>
    /\ buffer' = <<>>
    /\ indent_level' = 0
    /\ i' = 1
    /\ pc' = "lines"
    /\ tags' = <<>>
    /\ bufSrc' = <<>>
    /\ lastDump' = NoDump
    /\ UNCHANGED <<argv, args, mpc, fidx, err, src, fs0>>

\* The tags of the lines of `written`, the last of them _write_line's own
\* when `through`.
TagsOf(written, through) ==
    [k \in 1..Len(SplitLines(written)) |->
        IF through /\ k = Len(SplitLines(written)) THEN "verbatim" ELSE "wrapped"]

\* The effect of a pass of the loop that gave r for src[i]. f.write puts
\* the text in f's buffer: it reaches the file when f is closed, which an
\* error that leaves the with block does and a dump that never returns does
\* not. (f's buffer holds 8192 characters, more than a run of the model
\* writes.)
LineDone(r) ==
    /\ fs' = IF r.status \in {"ok", "hang"} THEN fs
             ELSE [fs EXCEPT ![file] = File(fs[file].content \o pending \o r.written)]
    /\ pending' = IF r.status = "ok" THEN pending \o r.written
                  ELSE IF r.status = "hang" THEN pending ELSE <<>>
    /\ buffer' = r.buffer
    /\ indent_level' = r.indent_level
    /\ i' = IF r.status = "ok" THEN i + 1 ELSE i
    /\ pc' = IF r.status = "ok" THEN "lines"
             ELSE IF r.status = "hang" THEN "hang" ELSE "raised"
    /\ err' = IF r.status \in {"ok", "hang"} THEN err ELSE r.status
    /\ tags' = tags \o TagsOf(r.written, r.status = "ok" /\ r.branch # "buffered")
    /\ bufSrc' = IF r.status # "ok" THEN bufSrc
                 ELSE IF r.branch # "buffered" THEN <<>>
                 ELSE IF r.dumped THEN <<src[i]>>
                 ELSE Append(bufSrc, src[i])
    /\ lastDump' = IF r.status = "ok" /\ r.dumped
                   THEN [made |-> TRUE, src |-> bufSrc, buffer |-> buffer,
                         indent_level |-> r.indent_level, lines |-> r.lines]
                   ELSE NoDump

\* One pass of the loop, for src[i].
ProcessLine ==
    /\ pc = "lines"
    /\ i <= Len(src)
    /\ LineDone(ProcessLineBody(src[i], buffer, indent_level, args.line_length,
                                args.ignore_indented,
                                args.alternate_capital_handling))
    /\ UNCHANGED <<argv, args, mpc, fidx, src, fs0>>

\* The effect of the else clause of the loop, which gave e, and of the end
\* of the with block, which closes f: what f's buffer holds reaches the file.
LoopDone(e) ==
    /\ fs' = IF e.status = "hang" THEN fs
             ELSE [fs EXCEPT ![file] = File(fs[file].content \o pending \o e.written)]
    /\ pending' = IF e.status = "hang" THEN pending ELSE <<>>
    /\ buffer' = e.buffer
    /\ pc' = IF e.status = "ok" THEN "done"
             ELSE IF e.status = "hang" THEN "hang" ELSE "raised"
    /\ err' = IF e.status \in {"ok", "hang"} THEN err ELSE e.status
    /\ tags' = tags \o TagsOf(e.written, FALSE)
    /\ bufSrc' = IF e.status = "ok" THEN <<>> ELSE bufSrc
    /\ lastDump' = IF e.status = "ok" /\ buffer # <<>>
                   THEN [made |-> TRUE, src |-> bufSrc, buffer |-> buffer,
                         indent_level |-> indent_level, lines |-> e.lines]
                   ELSE NoDump

\* The else clause of the loop, and the end of the with block: the file is closed.
EndOfInput ==
    /\ pc = "lines"
    /\ i > Len(src)
    /\ LoopDone(EndOfFile(buffer, args.line_length, indent_level))
    /\ UNCHANGED <<argv, args, mpc, fidx, src, i, indent_level, fs0>>

\* A variant of NextFile that also goes on after an error.
NextFileAfterError ==
    /\ pc \in {"done", "raised"}
    /\ pc' = "idle"
    /\ fidx' = fidx + 1
    /\ mpc' = IF fidx + 1 > Len(args.filenames) THEN "exit" ELSE "files"
    /\ lastDump' = NoDump
    /\ UNCHANGED <<argv, args, fs, pending, err, src, i, buffer, indent_level, fs0,
                   tags, bufSrc>>

\* process_file returns and main's loop goes on to the next name, or ends.
NextFile ==
    /\ pc = "done"
    /\ pc' = "idle"
    /\ fidx' = fidx + 1
    /\ mpc' = IF fidx + 1 > Len(args.filenames) THEN "exit" ELSE "files"
    /\ lastDump' = NoDump
    /\ UNCHANGED <<argv, args, fs, pending, err, src, i, buffer, indent_level, fs0,
                   tags, bufSrc>>

\* The effect of a call of _dump_buffer alone, which gave d: f stays open.
DumpDone(d) ==
    /\ pending' = pending \o d.written
    /\ buffer' = d.buffer
    /\ pc' = IF d.status = "ok" THEN "dumped"
             ELSE IF d.status = "hang" THEN "hang" ELSE "raised"
    /\ err' = IF d.status \in {"ok", "hang"} THEN err ELSE d.status
    /\ tags' = tags \o TagsOf(d.written, FALSE)
    /\ lastDump' = IF d.status = "ok"
                   THEN [made |-> TRUE, src |-> bufSrc, buffer |-> buffer,
                         indent_level |-> indent_level, lines |-> d.lines]
                   ELSE NoDump

\* A call of _dump_buffer alone.
DumpBuffer ==
    /\ pc = "dump"
    /\ DumpDone(_dump_buffer(buffer, args.line_length, indent_level))
    /\ UNCHANGED <<argv, args, fs, mpc, fidx, src, i, indent_level, fs0, bufSrc>>

Next ==
    \/ ParseArgs
    \/ ReadText
    \/ OpenWrite
    \/ ProcessLine
    \/ EndOfInput
    \/ NextFile

Spec == Init /\ [][Next]_vars

SpecMain == InitMain /\ [][Next]_vars

SpecDump == InitDump /\ [][DumpBuffer]_vars

(***************************************************************************)
(* The vocabulary of the properties                                        *)
(***************************************************************************)
\* The content of the file being processed; the text written to f so far,
\* in the file or still in f's buffer, and its lines.
Content == fs[file].content

Written == Content \o pending

OutLines == SplitLines(Written)

\* A comment line, and its inner indentation.
IsCommentLine(line) == StartsWithPercent(LStrip(line))

InnerIndentation(line) == _n_leading_spaces(Uncommented(line))

\* A pass-through line: no comment, a comment with no inner indentation, or,
\* with ignore_indented, one with an inner indentation of 2 or more. Every
\* other line is eligible for reflowing.
PassThroughLine(line) ==
    \/ ~IsCommentLine(line)
    \/ InnerIndentation(line) = 0
    \/ args.ignore_indented /\ InnerIndentation(line) >= 2

EligibleLine(line) == ~PassThroughLine(line)

\* The first character of the comment's text is an upper-case letter.
CapitalLine(line) ==
    LStrip(Uncommented(line)) # <<>> /\ IsUpper(LStrip(Uncommented(line))[1])

\* process_file is in its loop, or has left it (by its end, by an error of
\* the loop, or by never returning from a dump).
InFile == pc \in {"lines", "done", "hang"} \/ (pc = "raised" /\ err # "FileNotFoundError")

\* The lines of `lines` whose tag is "verbatim", in order.
RECURSIVE VerbatimOf(_, _)
VerbatimOf(lines, tgs) ==
    IF lines = <<>> \/ tgs = <<>> THEN <<>>
    ELSE IF Head(tgs) = "verbatim"
         THEN <<Head(lines)>> \o VerbatimOf(Tail(lines), Tail(tgs))
         ELSE VerbatimOf(Tail(lines), Tail(tgs))

\* The words of a text: its maximal runs of characters that are no whitespace.
RECURSIVE WordsFrom(_, _)
WordsFrom(text, word) ==
    IF text = <<>> THEN (IF word = <<>> THEN <<>> ELSE <<word>>)
    ELSE IF Head(text) \in Whitespace
         THEN (IF word = <<>> THEN <<>> ELSE <<word>>) \o WordsFrom(Tail(text), <<>>)
         ELSE WordsFrom(Tail(text), Append(word, Head(text)))

WordsOf(text) == WordsFrom(text, <<>>)

\* The words of wrapped lines, after the indent and the leading "%" of each.
RECURSIVE WordsOfLines(_)
WordsOfLines(lines) ==
    IF lines = <<>> THEN <<>>
    ELSE WordsOf(RemoveFirstPercent(LStrip(Head(lines)))) \o WordsOfLines(Tail(lines))

\* The line starts with exactly n spaces and a "%".
HasIndent(line, n) ==
    /\ Len(line) > n
    /\ SubSeq(line, 1, n) = Spaces(n)
    /\ line[n + 1] = "%"

\* The text a dump was made of.
DumpText == Join(lastDump.buffer)

\* The file system after main has processed the first k names in order.
RECURSIVE ExpectedFs(_)
ExpectedFs(k) ==
    IF k = 0 THEN fs0
    ELSE IF ~ExpectedFs(k - 1)[args.filenames[k]].exists THEN ExpectedFs(k - 1)
    ELSE [ExpectedFs(k - 1) EXCEPT ![args.filenames[k]] =
             File(process_file(ExpectedFs(k - 1)[args.filenames[k]].content,
                               args.line_length, args.ignore_indented,
                               args.alternate_capital_handling).content)]

\* The dump made by the last step was of the run of eligible source lines
\* that ends just before the line that caused it (at the last line, for the
\* dump at the end of the input).
DumpedRun(last) ==
    /\ Len(lastDump.src) >= 1
    /\ last >= Len(lastDump.src)
    /\ lastDump.src = SubSeq(src, last - Len(lastDump.src) + 1, last)
    /\ \A k \in DOMAIN lastDump.src : EligibleLine(lastDump.src[k])
    /\ lastDump.buffer = [k \in DOMAIN lastDump.src |-> Uncommented(lastDump.src[k])]

\* The source line whose fragment is buffer[k]: the buffer holds the
\* fragments of the last Len(buffer) lines processed.
BufferLine(k) == src[i - 1 - Len(buffer) + k]

\* The text of a comment line after its first "%".
AfterPercent(line) == RemoveFirstPercent(LStrip(line))

\* The line processed last was written straight out, as the last line of
\* the file, and left the buffer empty.
LastPassedThrough ==
    /\ buffer = <<>>
    /\ tags # <<>>
    /\ tags[Len(tags)] = "verbatim"
    /\ OutLines[Len(OutLines)] = src[i - 1]

\* The line processed last was put in the buffer.
LastBuffered ==
    /\ buffer # <<>>
    /\ buffer[Len(buffer)] = Uncommented(src[i - 1])

\* a is the start of b.
IsPrefix(a, b) == Len(a) <= Len(b) /\ a = SubSeq(b, 1, Len(a))

\* What process_file does with the file whose lines it has read (src): its
\* outcome and the content it leaves.
Final ==
    process_file(JoinLines(src), args.line_length, args.ignore_indented,
                 args.alternate_capital_handling)

\* The words of each fragment, fragment after fragment.
RECURSIVE WordsOfEach(_)
WordsOfEach(fragments) ==
    IF fragments = <<>> THEN <<>>
    ELSE WordsOf(Head(fragments)) \o WordsOfEach(Tail(fragments))

(***************************************************************************)
(* The properties                                                          *)
(***************************************************************************)

\* C1: when process_file has finished, processing the file it left once more,
\* with the same configuration, finishes too and leaves the same content.
C1_Idempotent ==
    pc = "done" =>
        process_file(Content, args.line_length, args.ignore_indented,
                     args.alternate_capital_handling)
            = [status |-> "ok", content |-> Content]

\* C2: at every point of the processing of a file, the lines written by
\* _write_line itself are exactly the pass-through lines among the source
\* lines processed so far, character for character and in the same order
\* (every one once); every other line of the file so far comes from a dump.
C2_PassThroughExact ==
    InFile =>
        /\ Len(OutLines) = Len(tags)
        /\ VerbatimOf(OutLines, tags) = SelectSeq(SubSeq(src, 1, i - 1), PassThroughLine)

\* C2's case: a finished file whose second line, one with leading spaces,
\* passed through after the dump of the first.
C2_Witness ==
    /\ pc = "done"
    /\ Len(src) = 2
    /\ EligibleLine(src[1])
    /\ PassThroughLine(src[2])
    /\ _n_leading_spaces(src[2]) > 0
    /\ tags = <<"wrapped", "verbatim">>

\* C3 as stated: no line written by a dump is longer than line_length, unless
\* a word of the dumped text is longer than line_length.
C3_WidthBound ==
    lastDump.made =>
        \A k \in DOMAIN OutLines :
            \/ Len(OutLines[k]) <= args.line_length
            \/ \E w \in DOMAIN WordsOf(DumpText) :
                   Len(WordsOf(DumpText)[w]) > args.line_length

\* C3, amended: when line_length >= indent_level + 3 (the "% " after the
\* indent leaves a column for text), no line written by a dump is longer than
\* line_length, whatever the words are.
C3_WidthBoundWithRoom ==
    lastDump.made /\ args.line_length >= lastDump.indent_level + 3 =>
        /\ OutLines = lastDump.lines
        /\ \A k \in DOMAIN OutLines : Len(OutLines[k]) <= args.line_length

\* C3's case: a dump of several lines with room for one column of text only,
\* one of whose words is longer than that.
C3_Witness ==
    /\ lastDump.made
    /\ args.line_length = lastDump.indent_level + 3
    /\ lastDump.indent_level > 0
    /\ Len(OutLines) > 2
    /\ \E w \in DOMAIN WordsOf(DumpText) : Len(WordsOf(DumpText)[w]) > 1

\* C4 as stated: the words of the dumped text are the words of the lines
\* written, in order.
C4_WordsPreserved ==
    lastDump.made => WordsOf(DumpText) = WordsOfLines(OutLines)

\* C5 as stated: every line written by a dump starts with as many spaces as
\* the first source line of the dumped buffer, then "%".
C5_IndentPreserved ==
    lastDump.made =>
        \A k \in DOMAIN lastDump.lines :
            HasIndent(lastDump.lines[k], _n_leading_spaces(lastDump.src[1]))

\* C6: a pass of the loop for a pass-through line, with a buffer that is not
\* empty, either appends to the file the wrapped lines of the buffer and
\* then the line, leaving the buffer empty, or stops process_file (the dump
\* raised or never returned) with nothing written: the line is never written
\* before the buffered text.
C6_Step ==
    pc = "lines" /\ i <= Len(src) /\ PassThroughLine(src[i]) /\ buffer # <<>> =>
        \/ /\ pc' = "lines"
           /\ lastDump'.made
           /\ lastDump'.buffer = buffer
           /\ lastDump'.lines # <<>>
           /\ Written' = Written \o JoinLines(lastDump'.lines) \o src[i] \o <<NL>>
           /\ buffer' = <<>>
        \/ /\ pc' \in {"raised", "hang"}
           /\ Written' = Written
           /\ buffer' = buffer

\* C6, continued: a dumped block is a run of consecutive eligible source
\* lines, so no pass-through line lies inside it.
C6_Block ==
    lastDump.made => DumpedRun(IF pc = "done" THEN i - 1 ELSE i - 2)

C6_FlushBeforePassThrough == [][C6_Step]_vars /\ []C6_Block

\* C6's case: the second line passed through and the first was dumped before it.
C6_Witness ==
    /\ pc = "lines"
    /\ i = 3
    /\ PassThroughLine(src[2])
    /\ lastDump.made
    /\ buffer = <<>>
    /\ tags[Len(tags)] = "verbatim"
    /\ tags[1] = "wrapped"

\* C7: a pass of the loop for an eligible line that starts with a capital,
\* with a buffer that is not empty: with alternate_capital_handling the
\* buffer is dumped and the new buffer holds this line alone (or the dump
\* stops process_file with nothing written); without it the line is added to
\* the buffer and nothing is written.
C7_Step ==
    pc = "lines" /\ i <= Len(src) /\ EligibleLine(src[i]) /\ CapitalLine(src[i])
            /\ buffer # <<>> =>
        IF args.alternate_capital_handling
        THEN \/ /\ pc' = "lines"
                /\ lastDump'.made
                /\ lastDump'.buffer = buffer
                /\ Written' = Written \o JoinLines(lastDump'.lines)
                /\ buffer' = <<Uncommented(src[i])>>
             \/ /\ pc' \in {"raised", "hang"}
                /\ Written' = Written
                /\ buffer' = buffer
        ELSE /\ pc' = "lines"
             /\ ~lastDump'.made
             /\ Written' = Written
             /\ buffer' = Append(buffer, Uncommented(src[i]))

\* C7, continued: with alternate_capital_handling only the first fragment of
\* the buffer, and of a dumped block, can start with a capital.
C7_OnlyFirstCapital ==
    args.alternate_capital_handling =>
        /\ \A k \in 2..Len(buffer) : ~IsUpper(LStrip(buffer[k])[1])
        /\ \A k \in 2..Len(lastDump.buffer) : ~IsUpper(LStrip(lastDump.buffer[k])[1])

C7_AlternateCapitalHandling == [][C7_Step]_vars /\ []C7_OnlyFirstCapital

\* C7's case: a capitalized line has just caused a dump and is alone in the
\* new buffer.
C7_Witness ==
    /\ pc = "lines"
    /\ args.alternate_capital_handling
    /\ lastDump.made
    /\ i = 3
    /\ CapitalLine(src[2])
    /\ buffer = <<Uncommented(src[2])>>

\* C8 as stated: with a line_length that is not positive, process_file raises
\* no error.
C8_NoErrorForNonPositive ==
    mpc # "parse" /\ args.line_length <= 0 => err # "ValueError"

\* C8, amended: a line_length that is not positive is passed on by main as it
\* is; process_file then never writes a wrapped line and never hangs; it ends
\* only for a file without an eligible line, which it rewrites line for
\* line; and the ValueError it raises comes from a dump, with the file left
\* holding the pass-through lines written before.
C8_NonPositiveRaisesAtDump ==
    mpc # "parse" /\ args.line_length <= 0 =>
        /\ argv.line_length.given /\ args.line_length = ParseInt(argv.line_length.value)
        /\ pc # "hang"
        /\ InFile =>
              /\ \A k \in DOMAIN tags : tags[k] = "verbatim"
              /\ pc = "done" =>
                     /\ \A k \in DOMAIN src : PassThroughLine(src[k])
                     /\ Content = JoinLines(src)
              /\ pc = "raised" =>
                     /\ err = "ValueError"
                     /\ buffer # <<>>
                     /\ \E k \in 1..Len(src) :
                            /\ EligibleLine(src[k])
                            /\ \A j \in 1..(k - 1) : PassThroughLine(src[j])
                            /\ Content = JoinLines(SubSeq(src, 1, k - 1))

\* C8's case: ValueError was raised with a width of 0 or less, after a line
\* had been written.
C8_Witness ==
    /\ args.line_length <= 0
    /\ pc = "raised"
    /\ err = "ValueError"
    /\ Content # <<>>

\* C9: main has rewritten the first fidx - 1 files, in order, whenever it
\* starts or ends its loop's passes; when an error was raised in the pass for
\* file fidx, main has not returned, every name before it holds its rewritten
\* content and every file not named up to it is as it was.
C9_Files ==
    /\ mpc = "files" /\ pc = "idle" => fs = ExpectedFs(fidx - 1)
    /\ mpc = "exit" => fs = ExpectedFs(Len(args.filenames))
    /\ pc = "raised" =>
           /\ mpc = "files"
           /\ \A k \in 1..(fidx - 1) :
                  fs[args.filenames[k]] = ExpectedFs(fidx - 1)[args.filenames[k]]
           /\ \A n \in FileNames :
                  n \notin {args.filenames[k] : k \in 1..fidx} => fs[n] = fs0[n]

\* C9, continued: after an error nothing more happens, and the loop goes
\* from one name to the next only when process_file has returned.
C9_Step ==
    /\ pc = "raised" => UNCHANGED vars
    /\ fidx' # fidx => fidx' = fidx + 1 /\ (pc = "done" \/ mpc = "parse")

C9_FailFastSequential == []C9_Files /\ [][C9_Step]_vars

\* C9's case: the second of three different files raised, after the first
\* was rewritten to another content, and the third exists.
C9_Witness ==
    /\ pc = "raised"
    /\ fidx = 2
    /\ Len(args.filenames) = 3
    /\ Cardinality({args.filenames[k] : k \in 1..3}) = 3
    /\ fs[args.filenames[1]] # fs0[args.filenames[1]]
    /\ fs[args.filenames[3]].exists

\* C10: once parsed, each of the two flags is true for a value that is not
\* empty ("false" too) and false for the empty value; when the flag is not
\* given ignore_indented is true and alternate_capital_handling is false.
C10_BooleanFlags ==
    mpc # "parse" =>
        /\ args.ignore_indented =
              IF argv.ignore_indented.given
              THEN argv.ignore_indented.value # <<>> ELSE TRUE
        /\ args.alternate_capital_handling =
              IF argv.alternate_capital_handling.given
              THEN argv.alternate_capital_handling.value # <<>> ELSE FALSE
        /\ argv.ignore_indented = Given(<<"f", "a", "l", "s", "e">>)
              => args.ignore_indented
        /\ argv.alternate_capital_handling = Given(<<"f", "a", "l", "s", "e">>)
              => args.alternate_capital_handling

\* C10's case: both flags were given as "false" and both are true.
C10_Witness ==
    /\ mpc = "files"
    /\ argv.ignore_indented = Given(<<"f", "a", "l", "s", "e">>)
    /\ argv.alternate_capital_handling = Given(<<"f", "a", "l", "s", "e">>)
    /\ args.ignore_indented
    /\ args.alternate_capital_handling

\* C11: whenever the buffer is not empty, its fragments are, in order, the
\* uncommented forms of the last Len(buffer) source lines processed, and each
\* of those lines is eligible for reflowing.
C11_BufferContiguity ==
    InFile /\ buffer # <<>> =>
        /\ Len(buffer) <= i - 1
        /\ \A k \in DOMAIN buffer :
               /\ EligibleLine(BufferLine(k))
               /\ buffer[k] = Uncommented(BufferLine(k))

\* C11's case: two lines are in the buffer, the second at another indent.
C11_Witness ==
    /\ pc = "lines"
    /\ i = 3
    /\ Len(buffer) = 2
    /\ src[1] # src[2]

\* C12: whenever the buffer is not empty, every source line with a fragment
\* in it has indent_level leading spaces.
C12_SharedIndent ==
    InFile /\ buffer # <<>> /\ Len(buffer) <= i - 1 =>
        \A k \in DOMAIN buffer : _n_leading_spaces(BufferLine(k)) = indent_level

\* C13: a comment line with no inner indentation is blank after its "%", and
\* a comment line that is not blank after its "%" is put in the buffer or,
\* with ignore_indented and an inner indentation of 2 or more, written
\* straight out.
C13_ZeroInnerMeansBlank ==
    pc = "lines" /\ i > 1 /\ IsCommentLine(src[i - 1]) =>
        /\ InnerIndentation(src[i - 1]) = 0 => IsBlank(AfterPercent(src[i - 1]))
        /\ ~IsBlank(AfterPercent(src[i - 1])) =>
               \/ LastBuffered
               \/ /\ args.ignore_indented
                  /\ InnerIndentation(src[i - 1]) >= 2
                  /\ LastPassedThrough

\* C14: process_file never raises IndexError: a line that reaches the capital
\* check has a character that is no whitespace, and a comment line that is
\* blank after its "%" is never put in the buffer.
C14_NoIndexError ==
    /\ err # "IndexError"
    /\ pc = "lines" /\ i <= Len(src) /\ EligibleLine(src[i]) =>
           LStrip(Uncommented(src[i])) # <<>>
    /\ pc = "lines" /\ i > 1 /\ IsCommentLine(src[i - 1])
           /\ IsBlank(AfterPercent(src[i - 1])) => LastPassedThrough

\* C14's case: with alternate_capital_handling, a "%" followed by whitespace
\* alone was written straight out and the next line reached the capital check.
C14_Witness ==
    /\ args.alternate_capital_handling
    /\ pc = "lines"
    /\ i = 3
    /\ Len(AfterPercent(src[1])) > 0
    /\ IsBlank(AfterPercent(src[1]))
    /\ IsCommentLine(src[1])
    /\ tags = <<"verbatim">>
    /\ buffer = <<Uncommented(src[2])>>

\* C15: every fragment put in the buffer is written by a later dump and
\* every dump leaves the buffer empty: once process_file has left its loop
\* and takes no further step (it has finished, or raised an error, or is in
\* a dump that never returns), no fragment is left in the buffer, and a dump
\* wrote lines for the fragments it took.
C15_EveryFragmentEmitted ==
    /\ InFile /\ pc # "lines" => buffer = <<>>
    /\ lastDump.made => lastDump.lines # <<>> /\ lastDump.buffer # <<>>

\* C16: a call of process_file for a file that does not exist changes no
\* file and raises FileNotFoundError.
C16_Step ==
    mpc = "files" /\ pc = "idle" /\ ~fs[file].exists =>
        /\ fs' = fs
        /\ pc' = "raised"
        /\ err' = "FileNotFoundError"

\* C16, continued: when the file has been read and is not yet opened for
\* writing, src holds its lines and the file system is as the call found it;
\* after a failed read the file still does not exist and the file system is
\* as the call found it.
C16_Unchanged ==
    /\ pc = "open" =>
           /\ src = SplitLines(Content)
           /\ fs = ExpectedFs(fidx - 1)
    /\ pc = "raised" /\ err = "FileNotFoundError" =>
           /\ ~fs[file].exists
           /\ fs = ExpectedFs(fidx - 1)

C16_ReadBeforeTruncate == [][C16_Step]_vars /\ []C16_Unchanged

\* C16's case: the read of the second file failed, after the first file was
\* rewritten.
C16_Witness ==
    /\ pc = "raised"
    /\ err = "FileNotFoundError"
    /\ fidx = 2
    /\ args.filenames[1] # args.filenames[2]
    /\ fs[args.filenames[1]].exists
    /\ ~fs[args.filenames[2]].exists

\* C17: opening the file for writing empties it, before the first line is
\* processed; after an error the files stay as they are.
C17_Step ==
    /\ pc = "open" => fs'[file] = File(<<>>) /\ pc' = "lines" /\ i' = 1
    /\ pc = "raised" => fs' = fs

\* C17, continued: from then on the content of the file is a start of what
\* process_file leaves in it (nothing, while the loop runs: the text written
\* is in f's buffer), and all of it once process_file has finished or raised
\* an error; unless the run ends in a dump that never returns, the text
\* written is a start of it as well.
C17_Prefix ==
    InFile =>
        LET final == Final
        IN  /\ IsPrefix(Content, final.content)
            /\ pc = "lines" => Content = <<>>
            /\ pc \in {"done", "raised"} => Content = final.content /\ pending = <<>>
            /\ final.status # "hang" => IsPrefix(Written, final.content)

C17_NonAtomicRewrite == [][C17_Step]_vars /\ []C17_Prefix

\* C17's case: an error was raised in the loop and the file holds the one
\* line written before it, not the two it held.
C17_Witness ==
    /\ pc = "raised"
    /\ err = "ValueError"
    /\ Len(src) = 2
    /\ OutLines = <<src[1]>>
    /\ fs[file] # fs0[file]

\* C18: every fragment in the buffer starts with whitespace (one character
\* of it with ignore_indented), has a character that is no whitespace and
\* ends with one; so the words of the joined fragments are the words of the
\* fragments.
C18_FragmentShape ==
    /\ \A k \in DOMAIN buffer :
           /\ _n_leading_spaces(buffer[k]) >= 1
           /\ args.ignore_indented => _n_leading_spaces(buffer[k]) = 1
           /\ LStrip(buffer[k]) # <<>>
           /\ RStrip(buffer[k]) = buffer[k]
    /\ WordsOf(Join(buffer)) = WordsOfEach(buffer)

\* C18's case: two fragments are in the buffer, the second with two leading
\* whitespace characters.
C18_Witness ==
    /\ pc = "lines"
    /\ ~args.ignore_indented
    /\ Len(buffer) = 2
    /\ _n_leading_spaces(buffer[2]) = 2
    /\ Len(WordsOf(Join(buffer))) = 2

====
